---- MODULE Spec2Model ----
(***************************************************************************)
(* A model of the srx crate: construction of an SRX engine from the        *)
(* deserialized document (from_xml.rs), language resolution                *)
(* (SRX::language_rules) and segmentation (Rules::split_ranges / split).   *)
(*                                                                         *)
(* Representation choices                                                  *)
(*  - Option<T> is a sequence of length 0 (None) or 1 (Some(x)).           *)
(*  - A string is a sequence of one-character strings.  A text to be split *)
(*    is the sequence of its UTF-8 bytes, each byte given by its kind:     *)
(*    "a" (a one-byte character), "L2"/"L3"/"L4" (the lead byte of a 2-,   *)
(*    3-, 4-byte character) or "C" (a continuation byte).                  *)
(*  - A regex is the sequence of the tokens of its source.  The regex     *)
(*    crate is not part of the repository: Regex::new is modelled on its   *)
(*    syntax check for parentheses, Regex::is_match on literals, `|`, `^`  *)
(*    and `$`; the capture positions a rule's regex finds in the text are  *)
(*    an input (captures), any strictly increasing sequence of offsets in  *)
(*    0..len(text) for each regex.                                         *)
(***************************************************************************)
EXTENDS Naturals, Integers, Sequences, FiniteSets, TLC

VARIABLES
    pc,            \* "raw": document deserialized, engine not built; "ready"; "failed"; "panicked"
    data,          \* the schema::SRX value handed to try_from (kept as a record of the input)
    srx,           \* Option<SRX>: the constructed engine
    error,         \* Option<Error> returned by try_from
    lang_code,     \* argument of the last language_rules call
    selected,      \* indices of the map entries the last language_rules call took rules from
    rules,         \* the Rules value held by the caller
    text,          \* the text the caller splits
    captures,      \* captures[regex]: the starts of capture group 1 in the matches of regex in text
    masked_bytes,  \* the mask of the last split_ranges call
    segments,      \* the ranges returned by the last split_ranges call
    slices,        \* the slices yielded by the last split call
    split_rules,   \* Option<Rules>: the Rules value the last split or split_ranges call was made on
    op             \* the operation that acted last

vars == <<pc, data, srx, error, lang_code, selected, rules, text, captures,
          masked_bytes, segments, slices, split_rules, op>>

-----------------------------------------------------------------------------
(* Bounds *)

MaxBytes == 2

MaxRules == 3

MaxCands == 2

MaxBuckets == 2

MaxRawRules == 2

MaxMaps == 2

MaxBuildMaps == 1

MaxQueryBuckets == 1

MaxQueryRules == 1

MaxQueryMaps == 1

-----------------------------------------------------------------------------
(* Generic helpers *)

BoundedSeq(S, n) == UNION {[1..k -> S] : k \in 0..n}

None == <<>>

Some(x) == <<x>>

is_some(o) == Len(o) > 0

is_none(o) == Len(o) = 0

Range(f) == {f[i] : i \in DOMAIN f}

RECURSIVE Flatten(_)
Flatten(ss) == IF ss = <<>> THEN <<>> ELSE Head(ss) \o Flatten(Tail(ss))

-----------------------------------------------------------------------------
(* Texts: valid UTF-8 byte sequences *)

CharWidths == {1, 2, 3, 4}

LeadByte(w) == IF w = 1 THEN "a" ELSE IF w = 2 THEN "L2" ELSE IF w = 3 THEN "L3" ELSE "L4"

UTF8Char(w) == <<LeadByte(w)>> \o [i \in 1..(w - 1) |-> "C"]

RECURSIVE TextsOfLen(_)
TextsOfLen(n) ==
    IF n = 0 THEN {<<>>}
    ELSE UNION {{UTF8Char(w) \o t : t \in TextsOfLen(n - w)} : w \in {v \in CharWidths : v <= n}}

Texts == UNION {TextsOfLen(n) : n \in 0..MaxBytes}

\* str::is_char_boundary
is_char_boundary(t, i) ==
    \/ i = 0
    \/ i = Len(t)
    \/ i < Len(t) /\ t[i + 1] # "C"

\* the byte positions str::char_indices yields, in increasing order
RECURSIVE char_indices_from(_, _)
char_indices_from(t, i) ==
    IF i >= Len(t) THEN <<>>
    ELSE IF t[i + 1] # "C" THEN <<i>> \o char_indices_from(t, i + 1)
    ELSE char_indices_from(t, i + 1)

char_indices(t) == char_indices_from(t, 0)

\* What Regex::captures_iter may find in a text of len bytes: the starts of
\* capture group 1 in successive non-overlapping matches, left to right.
CandSeqs(len) ==
    {c \in BoundedSeq(0..len, MaxCands) : \A i \in 1..(Len(c) - 1) : c[i] < c[i + 1]}

\* the capture positions the regexes of res may have in t
Captures(res, t) == [res -> CandSeqs(Len(t))]

-----------------------------------------------------------------------------
(* Rules::split_ranges, lib.rs 121-157 *)

\* lib.rs 90-97
match_indices(rule, cap) == cap[rule.regex]

\* vec![None; text.len()]
EmptyMask(len) == [i \in 0..(len - 1) |-> "None"]

MaskValue(do_break) == IF do_break THEN "SomeTrue" ELSE "SomeFalse"

\* variant of out_of_range: no candidate is discarded
out_of_range_unguarded(byte_index, len) == FALSE

\* lib.rs 130: the candidate is at or past the end of the text
out_of_range(byte_index, len) == byte_index >= len

\* variant of set_mask: a later rule overwrites the decision of an earlier one
set_mask_overwrite(m, byte_index, do_break) ==
    IF byte_index \notin DOMAIN m.mask THEN [m EXCEPT !.panic = TRUE]
    ELSE [m EXCEPT !.mask[byte_index] = MaskValue(do_break)]

\* lib.rs 134-136: the first rule to reach a byte decides it.  Indexing the
\* mask outside its length panics.
set_mask(m, byte_index, do_break) ==
    IF byte_index \notin DOMAIN m.mask THEN [m EXCEPT !.panic = TRUE]
    ELSE IF m.mask[byte_index] = "None"
         THEN [m EXCEPT !.mask[byte_index] = MaskValue(do_break)]
         ELSE m

\* lib.rs 128-137: the inner loop over one rule's candidates, from the j-th
RECURSIVE rule_loop(_, _, _, _, _)
rule_loop(m, c, j, do_break, len) ==
    IF j > Len(c) \/ m.panic THEN m
    ELSE IF out_of_range(c[j], len) THEN m
    ELSE rule_loop(set_mask(m, c[j], do_break), c, j + 1, do_break, len)

\* variant of fill_mask: a candidate at or past the end of the text ends the
\* loop over the rules, not only the loop over the rule's candidates
RECURSIVE fill_mask_break_outer(_, _, _, _, _)
fill_mask_break_outer(m, rs, cap, i, len) ==
    IF i > Len(rs) \/ m.panic THEN m
    ELSE IF \E c \in Range(match_indices(rs[i], cap)) : out_of_range(c, len)
         THEN rule_loop(m, match_indices(rs[i], cap), 1, rs[i].do_break, len)
         ELSE fill_mask_break_outer(
                  rule_loop(m, match_indices(rs[i], cap), 1, rs[i].do_break, len),
                  rs, cap, i + 1, len)

\* lib.rs 127-138: the outer loop over the rules, from the i-th
RECURSIVE fill_mask(_, _, _, _, _)
fill_mask(m, rs, cap, i, len) ==
    IF i > Len(rs) \/ m.panic THEN m
    ELSE fill_mask(rule_loop(m, match_indices(rs[i], cap), 1, rs[i].do_break, len),
                   rs, cap, i + 1, len)

\* variant of is_break: an undecided byte counts as a break
is_break_unless_false(mask, byte_pos) == byte_pos \in DOMAIN mask /\ mask[byte_pos] # "SomeFalse"

\* lib.rs 144: masked_bytes.get(byte_pos) is Some(Some(true))
is_break(mask, byte_pos) == byte_pos \in DOMAIN mask /\ mask[byte_pos] = "SomeTrue"

\* variant of walk_positions: the walk visits every byte offset
walk_every_byte(t) == [i \in 1..Len(t) |-> i - 1]

\* the positions the walk of lib.rs 143 visits
walk_positions(t) == char_indices(t)

\* lib.rs 140-148: the walk, from the k-th visited position
RECURSIVE walk(_, _, _, _, _)
walk(w, mask, pos, k, t) ==
    IF k > Len(pos) THEN w
    ELSE IF is_break(mask, pos[k])
         THEN walk([segments |-> Append(w.segments, [start |-> w.prev_byte_pos, end |-> pos[k]]),
                    prev_byte_pos |-> pos[k]], mask, pos, k + 1, t)
         ELSE walk(w, mask, pos, k + 1, t)

\* lib.rs 152: text[prev_byte_pos..].chars().next().is_some()
has_trailing(t, prev_byte_pos) == prev_byte_pos < Len(t)

\* variant of trailing: the trailing element is not pushed
trailing_omitted(w, t) == w.segments

\* lib.rs 150-156
trailing(w, t) ==
    IF has_trailing(t, w.prev_byte_pos)
    THEN Append(w.segments, [start |-> w.prev_byte_pos, end |-> Len(t)])
    ELSE w.segments

split_ranges(rs, t, cap) ==
    LET m == fill_mask([mask |-> EmptyMask(Len(t)), panic |-> FALSE], rs, cap, 1, Len(t))
        w == walk([segments |-> <<>>, prev_byte_pos |-> 0], m.mask, walk_positions(t), 1, t)
    IN  IF m.panic
        THEN [panic |-> TRUE, mask |-> m.mask, segments |-> <<>>]
        ELSE [panic |-> FALSE, mask |-> m.mask, segments |-> trailing(w, t)]

\* &text[range] panics unless start <= end <= len and both lie on character boundaries
slice_ok(t, r) ==
    /\ r.start <= r.end
    /\ r.end <= Len(t)
    /\ is_char_boundary(t, r.start)
    /\ is_char_boundary(t, r.end)

\* lib.rs 160-167
split(rs, t, cap) ==
    LET r == split_ranges(rs, t, cap)
    IN  IF r.panic \/ \E k \in 1..Len(r.segments) : ~slice_ok(t, r.segments[k])
        THEN [r EXCEPT !.panic = TRUE] @@ [slices |-> <<>>]
        ELSE r @@ [slices |-> [k \in 1..Len(r.segments) |->
                                  SubSeq(t, r.segments[k].start + 1, r.segments[k].end)]]

-----------------------------------------------------------------------------
(* Regular expressions (the part of the regex crate the program uses) *)

\* the nesting depth after each token stays >= 0 and ends at 0
RECURSIVE balanced(_, _, _)
balanced(re, k, depth) ==
    IF k > Len(re) THEN depth = 0
    ELSE IF re[k] = "(" THEN balanced(re, k + 1, depth + 1)
    ELSE IF re[k] = ")" THEN depth > 0 /\ balanced(re, k + 1, depth - 1)
    ELSE balanced(re, k + 1, depth)

\* Regex::new: Some(regex), or None for a syntax error
Regex_new(re) == IF balanced(re, 1, 0) THEN Some(re) ELSE None

\* the alternatives of a regex without groups: `|` binds weakest
RECURSIVE alternatives(_, _, _)
alternatives(re, k, cur) ==
    IF k > Len(re) THEN <<cur>>
    ELSE IF re[k] = "|" THEN <<cur>> \o alternatives(re, k + 1, <<>>)
    ELSE alternatives(re, k + 1, Append(cur, re[k]))

\* the atoms of alt from the k-th on match s from offset i on
RECURSIVE match_at(_, _, _, _)
match_at(alt, k, s, i) ==
    IF k > Len(alt) THEN TRUE
    ELSE IF alt[k] = "^" THEN i = 0 /\ match_at(alt, k + 1, s, i)
    ELSE IF alt[k] = "$" THEN i = Len(s) /\ match_at(alt, k + 1, s, i)
    ELSE i < Len(s) /\ s[i + 1] = alt[k] /\ match_at(alt, k + 1, s, i + 1)

\* Regex::is_match: some alternative matches somewhere in s
is_match(re, s) ==
    LET alts == alternatives(re, 1, <<>>)
    IN  \E n \in 1..Len(alts) : \E i \in 0..Len(s) : match_at(alts[n], 1, s, i)

-----------------------------------------------------------------------------
(* utils.rs *)

\* utils.rs 11-13
full_regex(re) == Regex_new(<<"^">> \o re \o <<"$">>)

-----------------------------------------------------------------------------
(* from_xml.rs *)

\* from_xml.rs 7-15: Some(bool), or None for Err(SRXError)
string_to_bool(string) ==
    IF string = "yes" THEN Some(TRUE)
    ELSE IF string = "no" THEN Some(FALSE)
    ELSE None

\* before_break.as_ref().map_or("", |x| x.as_ref())
map_or_empty(o) == IF is_some(o) THEN o[1] ELSE <<>>

\* from_xml.rs 46-50: the pattern Rule::new compiles
fused(before_break, after_break) ==
    map_or_empty(before_break) \o <<"(">> \o map_or_empty(after_break) \o <<")">>

NoError == ""

\* from_xml.rs 34-53: [rule |-> Some(rule)] for Ok, [rule |-> None] with the error for Err
Rule_new(before_break, after_break, do_break) ==
    IF is_none(before_break) /\ is_none(after_break)
    THEN [rule |-> None, error |-> "invalid SRX: either before_break or after_break must be set"]
    ELSE LET regex == Regex_new(fused(before_break, after_break))
         IN  IF is_none(regex)
             THEN [rule |-> None, error |-> "Error constructing regex"]
             ELSE [rule |-> Some([regex |-> regex[1], do_break |-> do_break]), error |-> NoError]

\* HashMap::insert
insert(map, key, value) ==
    [k \in (DOMAIN map) \cup {key} |-> IF k = key THEN value ELSE map[k]]

EmptyMap == [k \in {} |-> <<>>]

\* from_xml.rs 85-97: the compiled map, None if a pattern does not compile
RECURSIVE compile_map(_, _)
compile_map(maps, k) ==
    IF k > Len(maps) THEN Some(<<>>)
    ELSE LET regex == full_regex(maps[k].pattern)
             rest == compile_map(maps, k + 1)
         IN  IF is_none(regex) \/ is_none(rest) THEN None
             ELSE Some(<<[regex |-> regex[1], language |-> maps[k].name]>> \o rest[1])

\* from_xml.rs 99-105
RECURSIVE init_errors(_, _)
init_errors(langs, k) ==
    IF k > Len(langs) THEN EmptyMap
    ELSE insert(init_errors(langs, k + 1), langs[k].name, <<>>)

\* from_xml.rs 118-125: some rule of the bucket has a malformed break attribute
bad_bool(raw_rules) == \E k \in 1..Len(raw_rules) : is_none(string_to_bool(raw_rules[k].do_break))

\* variant of compile_bucket: the errors of the rules that fail are not recorded
RECURSIVE compile_bucket_silent(_, _)
compile_bucket_silent(raw_rules, k) ==
    IF k > Len(raw_rules) THEN [value |-> <<>>, errors |-> <<>>]
    ELSE LET r == Rule_new(raw_rules[k].beforebreak, raw_rules[k].afterbreak,
                           string_to_bool(raw_rules[k].do_break)[1])
             rest == compile_bucket_silent(raw_rules, k + 1)
         IN  IF is_some(r.rule) THEN [rest EXCEPT !.value = r.rule \o @] ELSE rest

\* from_xml.rs 127-141: the rules of one bucket that compile, and the errors of the others
RECURSIVE compile_bucket(_, _)
compile_bucket(raw_rules, k) ==
    IF k > Len(raw_rules) THEN [value |-> <<>>, errors |-> <<>>]
    ELSE LET r == Rule_new(raw_rules[k].beforebreak, raw_rules[k].afterbreak,
                           string_to_bool(raw_rules[k].do_break)[1])
             rest == compile_bucket(raw_rules, k + 1)
         IN  IF is_some(r.rule)
             THEN [rest EXCEPT !.value = r.rule \o @]
             ELSE [rest EXCEPT !.errors = <<r.error>> \o @]

\* from_xml.rs 107-146: the buckets from the k-th on are collected into the
\* HashMap acc.rules, their errors pushed to acc.errors; acc.ok is false
\* once a bucket failed.
RECURSIVE compile_buckets(_, _, _)
compile_buckets(langs, k, acc) ==
    IF k > Len(langs) THEN acc
    ELSE IF bad_bool(langs[k].rules) THEN [acc EXCEPT !.ok = FALSE]
    ELSE LET b == compile_bucket(langs[k].rules, 1)
         IN  compile_buckets(langs, k + 1,
                 [ok |-> TRUE,
                  rules |-> insert(acc.rules, langs[k].name, b.value),
                  errors |-> [acc.errors EXCEPT ![langs[k].name] = @ \o b.errors]])

\* variant of missing_bucket: the map is not checked against the buckets
missing_bucket_unchecked(map, buckets) == FALSE

\* from_xml.rs 148-150: some map entry names a language without a bucket
missing_bucket(map, buckets) ==
    \E k \in 1..Len(map) : ~(\E name \in DOMAIN buckets : name = map[k].language)

\* from_xml.rs 82-161: [srx |-> Some(engine)] for Ok, [srx |-> None] with the error for Err
try_from(d) ==
    LET cascade == string_to_bool(d.cascade)
        map == compile_map(d.maps, 1)
        b == compile_buckets(d.languagerules, 1,
                 [ok |-> TRUE, rules |-> EmptyMap, errors |-> init_errors(d.languagerules, 1)])
    IN  IF is_none(cascade) THEN [srx |-> None, error |-> "SRXError: unexpected boolean value"]
        ELSE IF is_none(map) THEN [srx |-> None, error |-> "RegexError"]
        ELSE IF ~b.ok THEN [srx |-> None, error |-> "SRXError: unexpected boolean value"]
        ELSE IF missing_bucket(map[1], b.rules)
             THEN [srx |-> None, error |-> "SRXError: missing languagerules entry"]
        ELSE [srx |-> Some([cascade |-> cascade[1], map |-> map[1],
                            rules |-> b.rules, errors |-> b.errors]),
              error |-> NoError]

-----------------------------------------------------------------------------
(* SRX::language_rules, lib.rs 213-226 *)

\* variant of stops_after_match: the loop never stops early
stops_never(cascade) == FALSE

\* variant of stops_after_match: the loop always stops at the first match
stops_always(cascade) == TRUE

\* lib.rs 219: the loop stops after a matching entry
stops_after_match(cascade) == ~cascade

\* lib.rs 216-223: the loop over the map from the k-th entry on; `selected`
\* records the entries whose rules were taken.  The expect of lib.rs 218
\* panics when the entry's language has no bucket.
RECURSIVE rules_loop(_, _, _, _)
rules_loop(s, code, k, acc) ==
    IF k > Len(s.map) \/ acc.panic THEN acc
    ELSE IF is_match(s.map[k].regex, code)
         THEN IF s.map[k].language \notin DOMAIN s.rules
              THEN [acc EXCEPT !.panic = TRUE]
              ELSE LET next == [rules |-> acc.rules \o s.rules[s.map[k].language],
                                selected |-> Append(acc.selected, k),
                                panic |-> FALSE]
                   IN  IF stops_after_match(s.cascade) THEN next
                       ELSE rules_loop(s, code, k + 1, next)
         ELSE rules_loop(s, code, k + 1, acc)

language_rules(s, code) ==
    rules_loop(s, code, 1, [rules |-> <<>>, selected |-> <<>>, panic |-> FALSE])

\* variant of cloned: the rules are moved out of the buckets of the entries taken
drained(s, taken) ==
    [s EXCEPT !.rules = [name \in DOMAIN s.rules |->
                            IF \E k \in Range(taken) : s.map[k].language = name
                            THEN <<>> ELSE s.rules[name]]]

\* lib.rs 213, 218: the engine after language_rules(&self, ..) took the rules
\* of the map entries `taken`: iter().cloned() copies them, the buckets stay
cloned(s, taken) == s

-----------------------------------------------------------------------------
(* Inputs *)

Languages == {"A", "B"}

EN == <<"e", "n">>

EN_FR == <<"e", "n", "|", "f", "r">>

BadPattern == <<"(">>

\* language codes: "en", and codes that only contain an alternative of
\* EN_FR as a prefix ("enx") or as a suffix ("xfr")
Codes == {<<"e", "n">>, <<"e", "n", "x">>, <<"x", "f", "r">>}

\* <rule break="yes"><beforebreak>a</beforebreak></rule>
RuleBreak == [do_break |-> "yes", beforebreak |-> Some(<<"a">>), afterbreak |-> None]

\* <rule break="no"><afterbreak>b</afterbreak></rule>
RuleNoBreak == [do_break |-> "no", beforebreak |-> None, afterbreak |-> Some(<<"b">>)]

\* <rule break="yes"/>: neither pattern is set
RuleEmptyPair == [do_break |-> "yes", beforebreak |-> None, afterbreak |-> None]

\* <rule break="no"><beforebreak>(</beforebreak></rule>: the fused pattern does not compile
RuleBadRegex == [do_break |-> "no", beforebreak |-> Some(<<"(">>), afterbreak |-> None]

\* <rule break="maybe">
RuleBadBool == [do_break |-> "maybe", beforebreak |-> Some(<<"a">>), afterbreak |-> None]

\* the i-th rule of the bucket that holds rules of pattern letter: i copies
\* of the letter as beforebreak, break for odd i and no-break for even i
NthRule(letter, i) ==
    [do_break |-> IF i % 2 = 1 THEN "yes" ELSE "no",
     beforebreak |-> Some([j \in 1..i |-> letter]),
     afterbreak |-> None]

\* <languagerule languagerulename=name> with at most nr rules, each one of kinds
Buckets(names, kinds, nr) == [name : names, rules : BoundedSeq(kinds, nr)]

\* the schema::SRX values with at most nm map entries and at most nb buckets
Tables(bools, entries, nm, buckets, nb) ==
    [cascade : bools,
     maps : BoundedSeq(entries, nm),
     languagerules : BoundedSeq(buckets, nb)]

\* buckets whose rules all compile and differ from each other and from the
\* rules of the bucket of the other name: a, aa, ... in "A" and b, bb, ... in "B"
ResolveBuckets ==
    {[name |-> "A", rules |-> [i \in 1..n |-> NthRule("a", i)]] : n \in 0..MaxRawRules}
        \cup {[name |-> "B", rules |-> [i \in 1..n |-> NthRule("b", i)]] : n \in 0..MaxRawRules}

\* documents whose rules all compile, with maps of every shape
ResolveTables ==
    Tables({"yes", "no"}, [pattern : {EN, EN_FR}, name : Languages], MaxMaps,
           ResolveBuckets, MaxBuckets)

\* documents of one bucket with rules, break attributes, cascade attributes
\* and map patterns that fail to compile
FailingTables ==
    Tables({"yes", "maybe"}, [pattern : {EN, BadPattern}, name : {"A"}], MaxBuildMaps,
           Buckets(Languages, {RuleBreak, RuleEmptyPair, RuleBadRegex, RuleBadBool}, MaxRawRules),
           1)

\* documents of several buckets, also of the same name, with rules that fail to compile
RepeatingTables ==
    Tables({"yes"}, [pattern : {EN}, name : {"A"}], MaxBuildMaps,
           Buckets(Languages, {RuleBreak, RuleBadRegex}, MaxRawRules), MaxBuckets)

BuildTables == FailingTables \cup RepeatingTables

\* documents that map "en", or what EN_FR matches, to a bucket of break rules
QueryTables ==
    Tables({"yes", "no"}, [pattern : {EN, EN_FR}, name : {"A"}], MaxQueryMaps,
           Buckets({"A"}, {RuleBreak}, MaxQueryRules), MaxQueryBuckets)

\* the rule definitions of the Rule Sets that are split: break and no-break
\* rules over two patterns, no definition twice (the second of two equal
\* rules finds every offset decided by the first)
SplitRules ==
    {raw_rules \in BoundedSeq([do_break : {"yes", "no"},
                               beforebreak : {Some(<<"a">>), Some(<<"b">>)},
                               afterbreak : {None}], MaxRules) :
        \A i \in 1..Len(raw_rules) : \A j \in 1..Len(raw_rules) :
            i < j => raw_rules[i] # raw_rules[j]}

\* a document with one bucket of the rules raw_rules, mapped from the code "en"
SplitTable(raw_rules) ==
    [cascade |-> "no",
     maps |-> <<[pattern |-> EN, name |-> "A"]>>,
     languagerules |-> <<[name |-> "A", rules |-> raw_rules]>>]

-----------------------------------------------------------------------------
(* The state machine *)

\* the regexes of the rules of document d
RuleRegexes(d) ==
    UNION {{fused(rr.beforebreak, rr.afterbreak) : rr \in Range(lang.rules)} :
              lang \in Range(d.languagerules)}

\* document d is deserialized; t is the text to split and cap what the regexes find in it
Fresh(d, t, cap) ==
    /\ pc = "raw"
    /\ data = d
    /\ srx = None
    /\ error = None
    /\ lang_code = <<>>
    /\ selected = <<>>
    /\ rules = <<>>
    /\ text = t
    /\ captures = cap
    /\ masked_bytes = <<>>
    /\ segments = <<>>
    /\ slices = <<>>
    /\ split_rules = None
    /\ op = "none"

Init == \E d \in ResolveTables : Fresh(d, <<>>, EmptyMap)

InitBuild == \E d \in BuildTables : Fresh(d, <<>>, EmptyMap)

InitQuery ==
    \E d \in QueryTables : \E t \in Texts : \E cap \in Captures(RuleRegexes(d), t) :
        Fresh(d, t, cap)

\* the caller holds the Rules that language_rules("en") returned for a
\* document with one bucket of at most MaxRules rules
InitSplit ==
    \E raw_rules \in SplitRules :
        LET d == SplitTable(raw_rules)
            built == try_from(d)
            found == language_rules(built.srx[1], EN)
        IN  /\ pc = "ready"
            /\ data = d
            /\ srx = built.srx
            /\ error = None
            /\ lang_code = EN
            /\ selected = found.selected
            /\ rules = found.rules
            /\ text \in Texts
            /\ captures \in Captures(RuleRegexes(d), text)
            /\ masked_bytes = <<>>
            /\ segments = <<>>
            /\ slices = <<>>
            /\ split_rules = None
            /\ op = "language_rules"

\* SRX::try_from(data)
TryFrom ==
    /\ pc = "raw"
    /\ \E r \in {try_from(data)} :
           /\ srx' = r.srx
           /\ error' = IF is_some(r.srx) THEN None ELSE Some(r.error)
           /\ pc' = IF is_some(r.srx) THEN "ready" ELSE "failed"
    /\ op' = "try_from"
    /\ UNCHANGED <<data, lang_code, selected, rules, text, captures, masked_bytes, segments,
                   slices, split_rules>>

\* rules = srx.language_rules(code)
LanguageRules ==
    /\ pc = "ready"
    /\ \E code \in Codes :
          \E r \in {language_rules(srx[1], code)} :
              /\ srx' = Some(cloned(srx[1], r.selected))
              /\ lang_code' = code
              /\ selected' = r.selected
              /\ rules' = r.rules
              /\ pc' = IF r.panic THEN "panicked" ELSE "ready"
    /\ op' = "language_rules"
    /\ UNCHANGED <<data, error, text, captures, masked_bytes, segments, slices, split_rules>>

\* segments = rules.split_ranges(text)
SplitRanges ==
    /\ pc = "ready"
    /\ \E r \in {split_ranges(rules, text, captures)} :
           /\ masked_bytes' = r.mask
           /\ segments' = r.segments
           /\ slices' = <<>>
           /\ pc' = IF r.panic THEN "panicked" ELSE "ready"
    /\ split_rules' = Some(rules)
    /\ op' = "split_ranges"
    /\ UNCHANGED <<data, srx, error, lang_code, selected, rules, text, captures>>

\* slices = rules.split(text).collect()
Split ==
    /\ pc = "ready"
    /\ \E r \in {split(rules, text, captures)} :
           /\ masked_bytes' = r.mask
           /\ segments' = r.segments
           /\ slices' = r.slices
           /\ pc' = IF r.panic THEN "panicked" ELSE "ready"
    /\ split_rules' = Some(rules)
    /\ op' = "split"
    /\ UNCHANGED <<data, srx, error, lang_code, selected, rules, text, captures>>

Next == TryFrom \/ LanguageRules

Spec == Init /\ [][Next]_vars

SpecBuild == InitBuild /\ [][Next]_vars

NextQuery == TryFrom \/ LanguageRules \/ SplitRanges \/ Split

SpecQuery == InitQuery /\ [][NextQuery]_vars

NextSplit == SplitRanges \/ Split

SpecSplit == InitSplit /\ [][NextSplit]_vars

-----------------------------------------------------------------------------
(* Properties *)

\* a split or split_ranges call has returned
Returned == op \in {"split", "split_ranges"} /\ pc = "ready"

\* a language_rules call has returned
Resolved == op = "language_rules" /\ pc = "ready"

\* the map entries whose compiled regex matches the language code, as
\* language_rules tests them
Matching == {k \in 1..Len(srx[1].map) : is_match(srx[1].map[k].regex, lang_code)}

\* the engine's bucket of the k-th map entry
BucketOf(k) == srx[1].rules[srx[1].map[k].language]

\* C1: split_ranges never fails; the ranges it returns are in increasing
\* order, the first starts at 0, each starts where the previous one ends,
\* the last ends at len(text), a non-empty text gets at least one range, and
\* the slices of text at these ranges (which are what split yields)
\* concatenate to text.
C1_LosslessPartition ==
    /\ op \in {"split", "split_ranges"} => pc = "ready"
    /\ Returned =>
         /\ \A k \in 1..Len(segments) : segments[k].start <= segments[k].end
         /\ \A k \in 1..(Len(segments) - 1) : segments[k].end = segments[k + 1].start
         /\ segments # <<>> =>
               segments[1].start = 0 /\ segments[Len(segments)].end = Len(text)
         /\ text # <<>> => segments # <<>>
         /\ Flatten([k \in 1..Len(segments) |->
                        SubSeq(text, segments[k].start + 1, segments[k].end)]) = text
         /\ op = "split" =>
               /\ Len(slices) = Len(segments)
               /\ Flatten(slices) = text

\* C1 witness: split cut a text inside
C1_Witness ==
    /\ Returned
    /\ op = "split"
    /\ Len(slices) >= 2
    /\ \E k \in 1..Len(segments) : 0 < segments[k].start /\ segments[k].start < Len(text)

\* the rules with a candidate at byte offset off
RulesAt(off) == {i \in 1..Len(rules) : off \in Range(match_indices(rules[i], captures))}

\* C2 as stated: whenever rule A precedes rule B and both have a candidate
\* at the same offset of the text with different do_break values, the
\* decision recorded for the offset is A's.
C2_AnyEarlierRuleWins ==
    Returned =>
        \A off \in 0..(Len(text) - 1) : \A A \in RulesAt(off) : \A B \in RulesAt(off) :
            (A < B /\ rules[A].do_break # rules[B].do_break)
                => masked_bytes[off] = MaskValue(rules[A].do_break)

\* C2 amended: the decision recorded for an offset of the text is that of
\* the first rule of the set with a candidate there, whatever the later
\* rules say, and undecided if no rule has one; a range starts inside the
\* text only at an offset decided "break", so a no-break rule that is the
\* first at an offset prevents every later break rule from cutting there.
C2_FirstRuleWins ==
    Returned =>
        /\ \A off \in 0..(Len(text) - 1) :
              IF RulesAt(off) = {} THEN masked_bytes[off] = "None"
              ELSE \E A \in RulesAt(off) :
                      /\ \A B \in RulesAt(off) : A <= B
                      /\ masked_bytes[off] = MaskValue(rules[A].do_break)
        /\ \A k \in 1..Len(segments) :
              segments[k].start > 0 => masked_bytes[segments[k].start] = "SomeTrue"

\* C2 witness: a no-break rule and a later break rule share an offset inside
\* the text, no rule before the no-break rule has a candidate there
C2_Witness ==
    /\ Returned
    /\ \E off \in 1..(Len(text) - 1) : \E A \in RulesAt(off) : \E B \in RulesAt(off) :
          /\ A < B
          /\ \A i \in RulesAt(off) : A <= i
          /\ ~rules[A].do_break
          /\ rules[B].do_break
          /\ is_char_boundary(text, off)
          /\ masked_bytes[off] = "SomeFalse"

\* C3: on an engine with cascade = false, language_rules(code) returns
\* exactly the bucket of the first map entry, in map order, whose regex
\* matches the code, in the bucket's order, and takes rules from no other
\* entry; it returns no rule when no entry matches.
C3_FirstMatchOnly ==
    (Resolved /\ ~srx[1].cascade) =>
        IF Matching = {} THEN rules = <<>> /\ selected = <<>>
        ELSE \E first \in Matching :
                /\ \A k \in Matching : first <= k
                /\ rules = BucketOf(first)
                /\ selected = <<first>>

\* C3 witness: two entries with different buckets match, the first one's
\* bucket holds two different rules
C3_Witness ==
    /\ Resolved
    /\ ~srx[1].cascade
    /\ Cardinality(Matching) >= 2
    /\ \E j \in Matching : \E k \in Matching : j < k /\ BucketOf(j) # BucketOf(k) /\ BucketOf(k) # <<>>
    /\ Len(rules) = 2
    /\ rules[1] # rules[2]

\* the buckets of the map entries from the k-th on whose regex matches the
\* code, concatenated in map order
RECURSIVE MatchingBuckets(_)
MatchingBuckets(k) ==
    IF k > Len(srx[1].map) THEN <<>>
    ELSE (IF k \in Matching THEN BucketOf(k) ELSE <<>>) \o MatchingBuckets(k + 1)

\* C4: on an engine with cascade = true, language_rules(code) returns the
\* concatenation, in map order, of the buckets of all map entries whose
\* regex matches the code, each bucket in its order; so a rule of an earlier
\* matching entry precedes, and in split has priority over, every rule of a
\* later one.
C4_CascadeConcatenates ==
    (Resolved /\ srx[1].cascade) =>
        /\ rules = MatchingBuckets(1)
        /\ Range(selected) = Matching
        /\ \A i \in 1..(Len(selected) - 1) : selected[i] < selected[i + 1]

\* C4 witness: two entries with different non-empty buckets match
C4_Witness ==
    /\ Resolved
    /\ srx[1].cascade
    /\ \E j \in Matching : \E k \in Matching :
          /\ j < k
          /\ BucketOf(j) # <<>>
          /\ BucketOf(k) # <<>>
          /\ BucketOf(j) # BucketOf(k)
          /\ rules = BucketOf(j) \o BucketOf(k)

\* C5: every range returned by split_ranges starts and ends on a character
\* boundary of the text, also when rules have candidates inside a
\* multi-byte character; no range starts or ends at an offset that is not a
\* character start, whatever the decision recorded there; split never fails
\* slicing.
C5_CharBoundaries ==
    /\ op \in {"split", "split_ranges"} => pc = "ready"
    /\ Returned =>
         /\ \A k \in 1..Len(segments) :
               /\ is_char_boundary(text, segments[k].start)
               /\ is_char_boundary(text, segments[k].end)
         /\ \A off \in 0..(Len(text) - 1) :
               text[off + 1] = "C" =>
                   \A k \in 1..Len(segments) : segments[k].start # off /\ segments[k].end # off

\* C5 witness: a break decision is recorded inside a multi-byte character
C5_Witness ==
    /\ Returned
    /\ op = "split"
    /\ \E off \in 0..(Len(text) - 1) : text[off + 1] = "C" /\ masked_bytes[off] = "SomeTrue"

\* C6 as stated: when no map entry's regex matches the code,
\* language_rules(code) returns an empty Rule Set, and split of it returns
\* any text as a single segment.
C6_UnmatchedOneSegment ==
    /\ (Resolved /\ Matching = {}) => rules = <<>>
    /\ (Returned /\ lang_code \in Codes /\ Matching = {}) =>
          /\ rules = <<>>
          /\ segments = <<[start |-> 0, end |-> Len(text)]>>
          /\ op = "split" => slices = <<text>>

\* C6 amended: when no map entry's regex matches the code,
\* language_rules(code) returns an empty Rule Set, and split of it returns
\* any non-empty text as a single segment and no segment for the empty text.
C6_UnmatchedOneSegmentUnlessEmpty ==
    /\ (Resolved /\ Matching = {}) => rules = <<>>
    /\ (Returned /\ lang_code \in Codes /\ Matching = {}) =>
          /\ rules = <<>>
          /\ segments = IF text = <<>> THEN <<>> ELSE <<[start |-> 0, end |-> Len(text)]>>
          /\ op = "split" => slices = IF text = <<>> THEN <<>> ELSE <<text>>

\* C6 witness: no entry matches the code, and a two-character text was
\* split in which a break rule of a mapped bucket has a candidate
C6_Witness ==
    /\ Returned
    /\ op = "split"
    /\ lang_code \in Codes
    /\ Matching = {}
    /\ text = <<"a", "a">>
    /\ \E k \in 1..Len(srx[1].map) : \E i \in 1..Len(BucketOf(k)) :
          /\ BucketOf(k)[i].do_break
          /\ 1 \in Range(match_indices(BucketOf(k)[i], captures))

\* C7: for every Rule Set, split and split_ranges of the empty text return
\* an empty sequence and do not fail.
C7_EmptyInput ==
    (op \in {"split", "split_ranges"} /\ text = <<>>) =>
        /\ pc = "ready"
        /\ segments = <<>>
        /\ slices = <<>>

\* C7 witness: the empty text was split by a break rule whose regex matches
\* the empty text
C7_Witness ==
    /\ Returned
    /\ op = "split"
    /\ text = <<>>
    /\ \E i \in 1..Len(rules) : rules[i].do_break /\ match_indices(rules[i], captures) = <<0>>

\* C8 as stated: after a successful construction every declared language
\* has an errors() entry, and for every declared bucket with R rule
\* definitions of which k fail to compile, the active bucket of its language
\* holds R - k rules and errors() holds k entries for the language.
C8_DiagnosticsAccounting ==
    pc = "ready" =>
        /\ DOMAIN srx[1].errors = {lang.name : lang \in Range(data.languagerules)}
        /\ \A b \in 1..Len(data.languagerules) :
              LET lang == data.languagerules[b]
                  R == Len(lang.rules)
                  k == Cardinality({i \in 1..R :
                           is_none(Rule_new(lang.rules[i].beforebreak,
                                            lang.rules[i].afterbreak, TRUE).rule)})
              IN  /\ Len(srx[1].rules[lang.name]) = R - k
                  /\ Len(srx[1].errors[lang.name]) = k

\* C8 amended: after a successful construction every declared language
\* name has an errors() entry and an active bucket; the active bucket holds
\* R - k rules, R and k counted in the last bucket declared with the name,
\* and errors() holds for the name as many entries as rule definitions fail
\* to compile in all buckets declared with the name (so R - k and k for a
\* name declared once).
C8_DiagnosticsAccountingByName ==
    pc = "ready" =>
        LET names == {lang.name : lang \in Range(data.languagerules)}
            fails(b, i) == is_none(Rule_new(data.languagerules[b].rules[i].beforebreak,
                                            data.languagerules[b].rules[i].afterbreak, TRUE).rule)
        IN  /\ DOMAIN srx[1].errors = names
            /\ DOMAIN srx[1].rules = names
            /\ \A name \in names :
                  LET declared == {b \in 1..Len(data.languagerules) :
                                      data.languagerules[b].name = name}
                      last == CHOOSE b \in declared : \A c \in declared : c <= b
                      R == Len(data.languagerules[last].rules)
                      k == Cardinality({i \in 1..R : fails(last, i)})
                      failed == {bi \in declared \X (1..MaxRawRules) :
                                    /\ bi[2] <= Len(data.languagerules[bi[1]].rules)
                                    /\ fails(bi[1], bi[2])}
                  IN  /\ Len(srx[1].rules[name]) = R - k
                      /\ Len(srx[1].errors[name]) = Cardinality(failed)

\* C8 witness: an engine was built from a document with a bucket, the only
\* one of its name, of two rule definitions of which one fails to compile
C8_Witness ==
    /\ pc = "ready"
    /\ op = "try_from"
    /\ \E b \in 1..Len(data.languagerules) :
          /\ \A c \in 1..Len(data.languagerules) :
                data.languagerules[c].name = data.languagerules[b].name => c = b
          /\ Len(data.languagerules[b].rules) = 2
          /\ Len(srx[1].rules[data.languagerules[b].name]) = 1
          /\ Len(srx[1].errors[data.languagerules[b].name]) = 1

\* C9: construction fails, and returns no engine, whenever a map entry
\* names a language that no bucket declares; in a constructed engine every
\* mapped language has a bucket, and language_rules never panics.
C9_MapBucketConsistency ==
    /\ pc # "panicked"
    /\ (pc # "raw" /\ \E k \in 1..Len(data.maps) :
                         data.maps[k].name \notin {lang.name : lang \in Range(data.languagerules)})
          => (pc = "failed" /\ srx = None /\ error # None)
    /\ pc = "ready" =>
          \A k \in 1..Len(srx[1].map) : srx[1].map[k].language \in DOMAIN srx[1].rules

\* C9 witness: construction failed on a document whose map names a language
\* without a bucket, next to one with a bucket
C9_Witness ==
    /\ pc = "failed"
    /\ op = "try_from"
    /\ error = Some("SRXError: missing languagerules entry")
    /\ \E j \in 1..Len(data.maps) : \E k \in 1..Len(data.maps) :
          /\ data.maps[j].name \in {lang.name : lang \in Range(data.languagerules)}
          /\ data.maps[k].name \notin {lang.name : lang \in Range(data.languagerules)}

\* C10: language_rules(code) takes rules from a map entry only if the
\* entry's declared pattern matches the entire code, that is, if one of the
\* pattern's alternatives is the code.
C10_FullStringAnchoring ==
    Resolved =>
        \A k \in Range(selected) :
            \E alt \in Range(alternatives(data.maps[k].pattern, 1, <<>>)) : alt = lang_code

C12_OutOfRangeDiscarded ==
    /\ op \in {"split", "split_ranges"} => pc = "ready"
    /\ Returned =>
          /\ DOMAIN masked_bytes = 0..(Len(text) - 1)
          /\ \A k \in 1..Len(segments) : segments[k].start < Len(text)
          /\ \A i \in 1..Len(rules) :
                \A c \in Range(match_indices(rules[i], captures)) :
                    c < Len(text) =>
                        /\ masked_bytes[c] # "None"
                        /\ (\A h \in 1..(i - 1) : c \notin Range(match_indices(rules[h], captures)))
                              => masked_bytes[c] = MaskValue(rules[i].do_break)

\* C12 witness: a rule has a candidate inside the text followed by one at
\* the end of the text, and a later rule of the other do_break value decided
\* another offset of the text
C12_Witness ==
    /\ Returned
    /\ \E i \in 1..Len(rules) : \E j \in 1..Len(rules) :
          \E c \in 0..(Len(text) - 1) : \E d \in 0..(Len(text) - 1) :
              /\ i < j
              /\ match_indices(rules[i], captures) = <<c, Len(text)>>
              /\ d # c
              /\ d \in Range(match_indices(rules[j], captures))
              /\ rules[i].do_break # rules[j].do_break
              /\ masked_bytes[c] = MaskValue(rules[i].do_break)
              /\ masked_bytes[d] = MaskValue(rules[j].do_break)

\* C13: every range split_ranges returns is non-empty (start < end), also
\* when a break rule has a candidate at byte offset 0; a non-empty text
\* gets one segment more than it has character boundaries strictly inside
\* it that are decided "break".
C13_NonEmptyRanges ==
    Returned =>
        /\ \A k \in 1..Len(segments) : segments[k].start < segments[k].end
        /\ text # <<>> =>
              Len(segments) = 1 + Cardinality({off \in 1..(Len(text) - 1) :
                                                  /\ is_char_boundary(text, off)
                                                  /\ masked_bytes[off] = "SomeTrue"})

====
